---- MODULE Spec2Model ----
(***************************************************************************)
(* Model of the pdf-tool backend: the resumable embedding pipeline          *)
(* (controllers/embedingController.js, services/generateEmbeddingsFromMongo *)
(* .js, models/embedings.js) and the asynchronous parsing orchestrator      *)
(* (ocrController, services/llamaIndexService.js, services/mistralService   *)
(* .js).                                                                    *)
(*                                                                          *)
(* Node.js runs one continuation at a time: every action below is the code  *)
(* that runs between two awaits.  An awaited store or provider call takes   *)
(* effect in the action that resumes the awaiting function.                 *)
(***************************************************************************)
EXTENDS Integers, Sequences, FiniteSets, TLC

VARIABLES
    db,           \* Document collection: documentId -> Document record
    vectors,      \* Embeddings collection: sequence of Vector Records
    runningJobs,  \* the in-flight registry: documentId -> job (0: no entry)
    runs,         \* the processDocumentEmbeddings invocations
    startH,       \* the startEmbedding request handlers
    stopH,        \* the stopEmbedding request handler
    faults,       \* failures injected so far (provider, store)
    mode,         \* how the clients issue requests: "overlap" or "serial"
    targets,      \* the document ids the clients send requests for
    stopSeen,     \* documentId -> a stopEmbedding returned that stopped every run of
                  \* the document, and no startEmbedding was accepted since
    subs,         \* the parsing submissions: request handler and background task
    statusResp,   \* the response getDocumentStatus sent in the last step
                  \* (NoResponse after any other step)
    pageH         \* the updateDocumentPage and deleteDocumentPage request handlers

embedVars == <<db, vectors, runningJobs, runs, startH, stopH, faults, mode, targets, stopSeen>>

vars ==
    <<db, vectors, runningJobs, runs, startH, stopH, faults, mode, targets, stopSeen, subs,
      statusResp, pageH>>

----------------------------------------------------------------------------
(* Bounds of the model *)

MaxRuns == 2
MaxStartHandlers == 2
MaxFaults == 1
MaxSmallPages == 2
MaxAttempts == 2
MaxParsedPages == 2
MaxOcrPages == 1
MaxPageHandlers == 2

(* Program constants *)

BATCH_SIZE == 20
ANNOTATION_PAGE_LIMIT == 8

DocIds == {"docA", "docB"}
RunIds == 1..MaxRuns
StartIds == 1..MaxStartHandlers
NoJob == 0

Min(a, b) == IF a < b THEN a ELSE b

\* pagesData of a parsed document with n pages: page numbers 1..n in order
PagesData(n) == [k \in 1..n |-> k]

\* documents large enough for two and for three batches
LargePages == {BATCH_SIZE + 1, 2 * BATCH_SIZE + 1}

----------------------------------------------------------------------------
(* The Document record and the Vector Record store *)

\* what a string of the record is: "text" (not empty) or "empty" (the empty
\* string, which a required String path rejects)
PageTexts(n) == [k \in 1..n |-> "text"]

\* pagesData is kept as two lists of equal length: pagesData (the pageNumber
\* of each element) and pageTexts (its text); pages is the page count and
\* version the version key __v
NoDocument ==
    [exists |-> FALSE, parsingStatus |-> "none", embeddingStatus |-> "none",
     currentPage |-> 0, currentChunk |-> 0, pagesData |-> <<>>, error |-> "none",
     pageTexts |-> <<>>, pages |-> 0, originalText |-> "empty", version |-> 0]

\* a Document whose parsing completed: the schema defaults of the embedding fields
ParsedDocument(n) ==
    [exists |-> TRUE, parsingStatus |-> "completed", embeddingStatus |-> "not_started",
     currentPage |-> 0, currentChunk |-> 0, pagesData |-> PagesData(n), error |-> "none",
     pageTexts |-> PageTexts(n), pages |-> n, originalText |-> "text", version |-> 0]

VectorRecord(d, p) == [documentId |-> d, pageNumber |-> p, chunkIndex |-> 0]

\* the unique index on (documentId, pageNumber, chunkIndex): an insert of a
\* record whose triple is already stored is rejected with code 11000
UniqueIndexViolatedNoIndex(store, rec) == FALSE

UniqueIndexViolated(store, rec) ==
    \E k \in 1..Len(store) :
        /\ store[k].documentId = rec.documentId
        /\ store[k].pageNumber = rec.pageNumber
        /\ store[k].chunkIndex = rec.chunkIndex

\* number of stored records of one (document, page, chunk 0)
RecordCount(store, d, p) ==
    Cardinality({k \in 1..Len(store) : store[k] = VectorRecord(d, p)})

----------------------------------------------------------------------------
(* processDocumentEmbeddings: positions and helpers *)

IdleRun ==
    [pc |-> "idle", doc |-> "docA", status |-> "none", currentPage |-> 0,
     dirty |-> FALSE, allPages |-> <<>>, i |-> 0, j |-> 0, calls |-> 0,
     stopping |-> FALSE, stopped |-> FALSE, dupSeen |-> FALSE, persistErrors |-> 0,
     resumeFrom |-> 0, progressModified |-> FALSE, statusReset |-> FALSE,
     invalid |-> FALSE]

ActivePcs == {"load", "save", "embed", "store", "saveProgress", "saveFinal"}

IsActive(r) == runs[r].pc \in ActivePcs

ActiveRuns(d) == {r \in RunIds : IsActive(r) /\ runs[r].doc = d}

FreeRuns == {r \in RunIds : ~IsActive(r)}

\* positions of the parsing background task at which it awaits a parser backend
BackendPcs == {"upload", "monitor", "result", "mistral"}

\* positions of the parsing background task between its start and its end
TaskPcs == BackendPcs \cup {"writeCompleted", "writeFailed"}

\* allInputs.slice(i, i + BATCH_SIZE).length
BatchLengthShort(i, n) == Min(i + BATCH_SIZE, n) - i - 1

BatchLength(i, n) == Min(i + BATCH_SIZE, n) - i

DeleteJobSkipped(d) == runningJobs

\* the finally block: runningJobs.delete(documentId), whoever registered the entry
DeleteJob(d) == [runningJobs EXCEPT ![d] = NoJob]

PageHandlerIds == 1..MaxPageHandlers

\* a page request handler that is not running (resp: the response it sent last)
IdlePageHandler ==
    [pc |-> "idle", op |-> "none", doc |-> "docA", pageNum |-> 0, text |-> "none",
     pagesData |-> <<>>, pageTexts |-> <<>>, originalText |-> "none", version |-> 0,
     pageIndex |-> 0, resp |-> "none"]

\* a request handler that is not running (resp: the response it sent last)
IdleHandler == [pc |-> "idle", doc |-> "docA", resp |-> "none"]

\* the handler sent a response and returned
Responded(d, resp) == [pc |-> "idle", doc |-> d, resp |-> resp]

HandlersIdle ==
    /\ \A h \in StartIds : startH[h].pc = "idle"
    /\ stopH.pc = "idle"

\* a serial client waits for the response of its last request, and for the end
\* of a run before it starts the next one; overlapping clients do not wait
MayStart(d) == mode = "overlap" \/ (HandlersIdle /\ ActiveRuns(d) = {})
MayStop == mode = "overlap" \/ HandlersIdle

----------------------------------------------------------------------------
(* Initial state: parsed documents, nothing embedded, no request in flight *)

\* docA is a parsed document with a small or a large page count; docB is an
\* id with no Document record
InitialDocuments ==
    {[d \in DocIds |-> IF d = "docA" THEN ParsedDocument(n) ELSE NoDocument] :
        n \in (0..MaxSmallPages) \cup LargePages}

\* requests for large documents come from a serial client; requests for the
\* missing id come with the empty document
InitEmbed ==
    /\ db \in InitialDocuments
    /\ mode = IF Len(db["docA"].pagesData) > MaxSmallPages THEN "serial" ELSE "overlap"
    /\ targets = IF Len(db["docA"].pagesData) = 0 THEN DocIds ELSE {"docA"}
    /\ vectors = <<>>
    /\ runningJobs = [d \in DocIds |-> NoJob]
    /\ runs = [r \in RunIds |-> IdleRun]
    /\ startH = [h \in StartIds |-> IdleHandler]
    /\ stopH = IdleHandler
    /\ faults = 0
    /\ stopSeen = [d \in DocIds |-> FALSE]

----------------------------------------------------------------------------
(* startEmbedding *)

\* the registry check, then the handler awaits Document.findById
startEmbedding_check(h, d) ==
    /\ startH[h].pc = "idle"
    /\ \A g \in StartIds : g < h => startH[g].pc # "idle"
    /\ MayStart(d)
    /\ startH' = [startH EXCEPT ![h] =
            IF runningJobs[d] # NoJob
            THEN Responded(d, "400 in progress")
            ELSE [pc |-> "find", doc |-> d, resp |-> "none"]]
    /\ UNCHANGED <<db, vectors, runningJobs, runs, stopH, faults, mode, targets, stopSeen,
                 subs, statusResp, pageH>>

\* the validation that document.save() runs first: originalText and the text
\* of every element of pagesData are required, and the required validator of
\* a String path rejects the empty string; the save then rejects with a
\* ValidationError and writes nothing
RequiredMissing(doc) ==
    \/ doc.originalText = "empty"
    \/ \E k \in 1..Len(doc.pageTexts) : doc.pageTexts[k] = "empty"

AlreadyEmbeddedNever(doc) == FALSE

\* document.embeddingStatus === 'completed'
AlreadyEmbedded(doc) == doc.embeddingStatus = "completed"

\* findById returned a document that is not completed: the run is started and
\* registered under the document id
startEmbedding_start(h) ==
    LET d == startH[h].doc IN
    /\ startH[h].pc = "find"
    /\ db[d].exists
    /\ ~AlreadyEmbedded(db[d])
    /\ FreeRuns # {}
    /\ LET r == CHOOSE x \in FreeRuns : \A y \in FreeRuns : x <= y IN
        /\ runs' = [runs EXCEPT ![r] = [IdleRun EXCEPT !.pc = "load", !.doc = d]]
        /\ runningJobs' = [runningJobs EXCEPT ![d] = r]
    /\ startH' = [startH EXCEPT ![h] = Responded(d, "200")]
    /\ stopSeen' = [stopSeen EXCEPT ![d] = FALSE]
    /\ UNCHANGED <<db, vectors, stopH, faults, mode, targets,
                 subs, statusResp, pageH>>

\* findById returned nothing, or a completed document: the request is rejected
startEmbedding_reject(h) ==
    LET d == startH[h].doc IN
    /\ startH[h].pc = "find"
    /\ ~db[d].exists \/ AlreadyEmbedded(db[d])
    /\ startH' = [startH EXCEPT ![h] =
            Responded(d, IF ~db[d].exists THEN "404" ELSE "400 completed")]
    /\ UNCHANGED <<db, vectors, runningJobs, runs, stopH, faults, mode, targets, stopSeen,
                 subs, statusResp, pageH>>

----------------------------------------------------------------------------
(* stopEmbedding *)

\* runningJobs.delete, then the handler awaits findByIdAndUpdate
stopEmbedding_delete(d) ==
    /\ stopH.pc = "idle"
    /\ MayStop
    /\ runningJobs' = DeleteJob(d)
    /\ stopH' = [pc |-> "update", doc |-> d, resp |-> "none"]
    /\ runs' = [r \in RunIds |->
                    IF r \in ActiveRuns(d) THEN [runs[r] EXCEPT !.stopping = TRUE]
                    ELSE runs[r]]
    /\ UNCHANGED <<db, vectors, startH, faults, mode, targets, stopSeen,
                 subs, statusResp, pageH>>

\* the update took effect and the response is sent
DocumentAfterStopResetsProgress(d) ==
    [db EXCEPT ![d].embeddingStatus = "not_started", ![d].currentPage = 0,
               ![d].currentChunk = 0]

\* Document.findByIdAndUpdate(documentId, {embeddingStatus: 'not_started'})
DocumentAfterStop(d) == [db EXCEPT ![d].embeddingStatus = "not_started"]

stopEmbedding_updated ==
    LET d == stopH.doc IN
    /\ stopH.pc = "update"
    /\ db' = IF db[d].exists
             THEN DocumentAfterStop(d)
             ELSE db
    /\ stopH' = IdleHandler
    /\ stopSeen' = [stopSeen EXCEPT ![d] = \A r \in ActiveRuns(d) : runs[r].stopping]
    /\ runs' = [r \in RunIds |->
                    IF r \in ActiveRuns(d)
                    THEN [runs[r] EXCEPT !.stopped = @ \/ runs[r].stopping,
                                         !.statusReset = db[d].exists]
                    ELSE runs[r]]
    /\ UNCHANGED <<vectors, runningJobs, startH, faults, mode, targets,
                 subs, statusResp, pageH>>

----------------------------------------------------------------------------
(* processDocumentEmbeddings *)

\* what process.exit leaves of another continuation: it never resumes.  (A
\* write it was awaiting and that did reach the store is the behaviour in
\* which it resumed before the exit.)
KilledRun(run) ==
    IF run.pc \in ActivePcs THEN [IdleRun EXCEPT !.pc = "killed", !.doc = run.doc]
    ELSE run

KilledSub(sub) ==
    IF sub.pc \in TaskPcs \cup {"create"} THEN [sub EXCEPT !.pc = "killed"] ELSE sub

\* the handler of unhandledRejection: process.exit(1).  Every continuation of
\* the process ends, the registry (a Map in memory) is gone, and the requests
\* in flight get no response; the record store keeps what was written
ProcessExit(r) ==
    /\ runs' = [q \in RunIds |->
                    IF q = r THEN [IdleRun EXCEPT !.pc = "failed", !.doc = runs[r].doc]
                    ELSE KilledRun(runs[q])]
    /\ runningJobs' = [d \in DocIds |-> NoJob]
    /\ startH' = [h \in StartIds |-> IdleHandler]
    /\ stopH' = IdleHandler
    /\ subs' = [s \in DOMAIN subs |-> KilledSub(subs[s])]
    /\ pageH' = [h \in PageHandlerIds |-> IdlePageHandler]

\* catch and finally: the registry entry is deleted and the error is re-thrown.
\* startEmbedding neither awaits the job nor attaches a handler to it, so the
\* rejection is unhandled
Throw(r) == ProcessExit(r)

DocumentAfterCatchCompleted(d) == [db EXCEPT ![d].embeddingStatus = "completed"]

\* the catch block logs and rethrows: it writes nothing to the document
DocumentAfterCatch(d) == db

\* an injected failure of the awaited call (store or provider)
pde_failed(r) ==
    /\ runs[r].pc \in {"load", "save", "embed", "saveProgress", "saveFinal"}
    /\ faults < MaxFaults
    /\ faults' = faults + 1
    /\ Throw(r)
    /\ db' = DocumentAfterCatch(runs[r].doc)
    /\ UNCHANGED <<vectors, mode, targets, stopSeen, statusResp>>

\* findById returned: embeddingStatus is set to processing and save() is issued
pde_loaded(r) ==
    LET d == runs[r].doc IN
    /\ runs[r].pc = "load"
    /\ IF db[d].exists
       THEN /\ runs' = [runs EXCEPT ![r] =
                    [@ EXCEPT !.pc = "save",
                              !.dirty = (db[d].embeddingStatus # "processing"),
                              !.status = "processing",
                              !.currentPage = db[d].currentPage,
                              !.resumeFrom = db[d].currentPage,
                              !.invalid = RequiredMissing(db[d]),
                              !.allPages = db[d].pagesData]]
            /\ UNCHANGED <<runningJobs, startH, stopH, subs, pageH>>
       ELSE Throw(r)
    /\ UNCHANGED <<db, vectors, faults, mode, targets, stopSeen, statusResp>>

\* what follows a save: the next batch is submitted, or the run completes
AfterSave(run, i) ==
    IF i < Len(run.allPages)
    THEN [run EXCEPT !.pc = "embed", !.i = i, !.j = 0, !.calls = @ + 1]
    ELSE [run EXCEPT !.pc = "saveFinal", !.i = i, !.j = 0,
                     !.status = "completed", !.currentPage = 0]

DocumentAfterMarkerSaveSkipped(d, run) == db

\* document.embeddingStatus = 'processing'; await document.save(): the save
\* writes embeddingStatus if the assignment changed it
DocumentAfterMarkerSave(d, run) ==
    IF run.dirty THEN [db EXCEPT ![d].embeddingStatus = "processing"] ELSE db

\* save() returned, or rejected with the ValidationError
pde_saved(r) ==
    LET d == runs[r].doc IN
    /\ runs[r].pc = "save"
    /\ IF runs[r].invalid
       THEN /\ Throw(r)
            /\ db' = DocumentAfterCatch(d)
       ELSE /\ db' = DocumentAfterMarkerSave(d, runs[r])
            /\ runs' = [runs EXCEPT ![r] = AfterSave([@ EXCEPT !.dirty = FALSE], 0)]
            /\ UNCHANGED <<runningJobs, startH, stopH, subs, pageH>>
    /\ UNCHANGED <<vectors, faults, mode, targets, stopSeen, statusResp>>

\* createEmbedding returned the vectors of the batch
pde_embedded(r) ==
    /\ runs[r].pc = "embed"
    /\ runs' = [runs EXCEPT ![r].pc = "store"]
    /\ UNCHANGED <<db, vectors, runningJobs, startH, stopH, faults, mode, targets, stopSeen,
                 subs, statusResp, pageH>>

\* the page whose record the run is inserting
CurrentPageNumber(run) == run.allPages[run.i + run.j + 1]

\* after the insert of page j: the next page of the batch, or the checkpoint
AfterInsert(run) ==
    LET len == BatchLength(run.i, Len(run.allPages)) IN
    IF run.j + 1 < len
    THEN [run EXCEPT !.j = @ + 1]
    ELSE [run EXCEPT !.pc = "saveProgress", !.currentPage = run.i + len,
                     !.progressModified = (run.currentPage # run.i + len)]

\* Embeddings.create returned: stored, or rejected by the unique index (swallowed)
pde_stored(r) ==
    LET rec == VectorRecord(runs[r].doc, CurrentPageNumber(runs[r])) IN
    /\ runs[r].pc = "store"
    /\ vectors' = IF UniqueIndexViolated(vectors, rec) THEN vectors
                  ELSE Append(vectors, rec)
    /\ runs' = [runs EXCEPT ![r] =
            AfterInsert([@ EXCEPT !.dupSeen = @ \/ UniqueIndexViolated(vectors, rec)])]
    /\ UNCHANGED <<db, runningJobs, startH, stopH, faults, mode, targets, stopSeen,
                 subs, statusResp, pageH>>

AfterPersistErrorAborts(run) == [run EXCEPT !.pc = "failed", !.persistErrors = @ + 1]

\* the catch around Embeddings.create: the error is logged, nothing is thrown
AfterPersistError(run) == AfterInsert([run EXCEPT !.persistErrors = @ + 1])

\* Embeddings.create failed with another error: logged, the loop goes on
pde_storeError(r) ==
    /\ runs[r].pc = "store"
    /\ faults < MaxFaults
    /\ faults' = faults + 1
    /\ runs' = [runs EXCEPT ![r] = AfterPersistError(@)]
    /\ UNCHANGED <<db, vectors, runningJobs, startH, stopH, mode, targets, stopSeen,
                 subs, statusResp, pageH>>

\* the checkpoint was saved: next batch, or completion
NextBatchStartByOne(i) == i + 1

\* i += BATCH_SIZE
NextBatchStart(i) == i + BATCH_SIZE

\* save() writes the paths marked modified.  embeddingProgress was assigned an
\* object: when it equals the value the document held, the path is left
\* unmarked by Mongoose versions that compare, and written by those that do not
ProgressWritten(run) == IF run.progressModified THEN {TRUE} ELSE BOOLEAN

pde_progressSaved(r) ==
    LET d == runs[r].doc IN
    /\ runs[r].pc = "saveProgress"
    /\ \E written \in ProgressWritten(runs[r]) :
        db' = IF written
              THEN [db EXCEPT ![d].currentPage = runs[r].currentPage,
                              ![d].currentChunk = 0]
              ELSE db
    /\ runs' = [runs EXCEPT ![r] = AfterSave(@, NextBatchStart(runs[r].i))]
    /\ UNCHANGED <<vectors, runningJobs, startH, stopH, faults, mode, targets, stopSeen,
                 subs, statusResp, pageH>>

\* the final save returned: completed, progress reset; finally deletes the entry
pde_completed(r) ==
    LET d == runs[r].doc IN
    /\ runs[r].pc = "saveFinal"
    /\ db' = [db EXCEPT ![d].embeddingStatus = "completed",
                        ![d].currentPage = 0,
                        ![d].currentChunk = 0]
    /\ runs' = [runs EXCEPT ![r] = [IdleRun EXCEPT !.pc = "done", !.doc = d]]
    /\ runningJobs' = DeleteJob(d)
    /\ UNCHANGED <<vectors, startH, stopH, faults, mode, targets, stopSeen,
                 subs, statusResp, pageH>>

----------------------------------------------------------------------------

NextEmbed ==
    \/ \E h \in StartIds, d \in targets : startEmbedding_check(h, d)
    \/ \E h \in StartIds : startEmbedding_start(h)
    \/ \E h \in StartIds : startEmbedding_reject(h)
    \/ \E d \in targets : stopEmbedding_delete(d)
    \/ stopEmbedding_updated
    \/ \E r \in RunIds : pde_failed(r)
    \/ \E r \in RunIds : pde_loaded(r)
    \/ \E r \in RunIds : pde_saved(r)
    \/ \E r \in RunIds : pde_embedded(r)
    \/ \E r \in RunIds : pde_stored(r)
    \/ \E r \in RunIds : pde_storeError(r)
    \/ \E r \in RunIds : pde_progressSaved(r)
    \/ \E r \in RunIds : pde_completed(r)

----------------------------------------------------------------------------
(* getDocumentStatus *)

\* the user of every submission, and another user
Users == {"u1", "u2"}

Roles == {"user", "admin"}

\* req.user of a status request
Requesters == [userId : Users, role : Roles]

\* Document.userId: the user who submitted the document
OwnerOf(d) == "u1"

\* null in a response body
Null == <<>>

NoResponse ==
    [code |-> "none", doc |-> "docA", userId |-> "u1", role |-> "user",
     status |-> "none", data |-> Null, error |-> "null"]

AuthorizedAnyone(d, requester) == TRUE

\* the ownership check: the owner, or an admin
Authorized(d, requester) == ~(OwnerOf(d) # requester.userId /\ requester.role # "admin")

StatusDataAlways(doc) == <<Len(doc.pagesData)>>

\* data of the response: the result when completed, otherwise null
StatusData(doc) ==
    IF doc.parsingStatus = "completed" THEN <<Len(doc.pagesData)>> ELSE Null

\* error of the response: null unless failed; when failed, metadata.error
\* ("none": the record has none, the value is undefined and the body has no error)
StatusError(doc) ==
    IF doc.parsingStatus = "failed" THEN doc.error ELSE "null"

StatusResponse(d, requester) ==
    LET base == [NoResponse EXCEPT !.doc = d, !.userId = requester.userId,
                                   !.role = requester.role]
    IN  IF ~db[d].exists THEN [base EXCEPT !.code = "404"]
        ELSE IF ~Authorized(d, requester) THEN [base EXCEPT !.code = "403"]
        ELSE [base EXCEPT !.code = "200", !.status = db[d].parsingStatus,
                          !.data = StatusData(db[d]), !.error = StatusError(db[d])]

\* GET /api/ocr/status/:id: the record is read and the response is sent
getDocumentStatus(d, requester) ==
    /\ statusResp' = StatusResponse(d, requester)
    /\ UNCHANGED <<embedVars, subs, pageH>>

----------------------------------------------------------------------------
(* The parsing orchestrator: submissions *)

\* one submission through each endpoint: POST /process and POST /process-url
SubIds == {"fileSub", "urlSub"}

KindOf(s) == IF s = "fileSub" THEN "file" ELSE "url"

\* Document.create gives every submission a document id of its own
DocOf(s) == IF s = "fileSub" THEN "docA" ELSE "docB"

IdleSub ==
    [pc |-> "idle", kind |-> "file", parser |-> "mistral", reqDocAnn |-> FALSE,
     docAnn |-> FALSE, bboxAnn |-> FALSE, try |-> 0, attempts |-> 0,
     job |-> "none", calls |-> 0, file |-> "none", resp |-> "none",
     err |-> "none", pages |-> 0, statusWrites |-> 0, url |-> FALSE,
     annSent |-> FALSE, pageCount |-> 0, jsonClass |-> "none",
     pageText |-> "none", polls |-> 0, pageNumbers |-> <<>>, explicit |-> <<>>,
     texts |-> <<>>]

\* parsingStatus values that end the parsing lifecycle
Terminal == {"completed", "failed"}

\* detected page counts: at the annotation limit and one page over it
DetectedPageCounts == {ANNOTATION_PAGE_LIMIT, ANNOTATION_PAGE_LIMIT + 1}

FinalDocAnnotationUnchecked(parser, docAnn, pageCount) == docAnn

\* the safety check: document_annotation is dropped above the page limit
FinalDocAnnotation(parser, docAnn, pageCount) ==
    IF parser = "mistral" /\ docAnn /\ pageCount > ANNOTATION_PAGE_LIMIT
    THEN FALSE ELSE docAnn

\* the record written by Document.create: parsingStatus processing
ProcessingDocument ==
    [exists |-> TRUE, parsingStatus |-> "processing", embeddingStatus |-> "not_started",
     currentPage |-> 0, currentChunk |-> 0, pagesData |-> <<>>, error |-> "none",
     pageTexts |-> <<>>, pages |-> 1, originalText |-> "text", version |-> 0]

CreateDocumentSkipped(d) == db

CreateDocument(d) == [db EXCEPT ![d] = ProcessingDocument]

\* processDocument: a file with an allowed extension and a supported parser
processDocument_accept(s) ==
    /\ KindOf(s) = "file"
    /\ subs[s].pc = "idle"
    /\ \E parser \in {"mistral", "llama"}, docAnn \in BOOLEAN, bboxAnn \in BOOLEAN,
          pageCount \in DetectedPageCounts :
        subs' = [subs EXCEPT ![s] =
            [IdleSub EXCEPT !.pc = "create", !.kind = "file", !.parser = parser,
                            !.reqDocAnn = docAnn,
                            !.docAnn = FinalDocAnnotation(parser, docAnn, pageCount),
                            !.bboxAnn = bboxAnn, !.file = "present",
                            !.pageCount = pageCount]]
    /\ UNCHANGED embedVars
    /\ statusResp' = NoResponse
    /\ UNCHANGED pageH

\* the parser choices a request can carry: the two backends and anything else
ParserChoices == {"mistral", "llama", "other"}

\* the two supported backends
SupportedParsers == {"mistral", "llama"}

\* processDocument: no file, a wrong extension or an unknown parser: 400;
\* an uploaded file is deleted
processDocument_reject(s) ==
    /\ KindOf(s) = "file"
    /\ subs[s].pc = "idle"
    /\ \E hasFile \in BOOLEAN, extensionAllowed \in BOOLEAN, parser \in ParserChoices :
        /\ ~hasFile \/ ~extensionAllowed \/ parser \notin SupportedParsers
        /\ subs' = [subs EXCEPT ![s] =
            [IdleSub EXCEPT !.pc = "rejected", !.kind = "file", !.resp = "400",
                            !.parser = parser,
                            !.file = IF hasFile THEN "deleted" ELSE "none"]]
    /\ UNCHANGED embedVars
    /\ statusResp' = NoResponse
    /\ UNCHANGED pageH

\* processDocumentFromUrl: document_url is present; the parser is not validated
processDocumentFromUrl_accept(s) ==
    /\ KindOf(s) = "url"
    /\ subs[s].pc = "idle"
    /\ \E parser \in {"mistral", "llama", "other"}, docAnn \in BOOLEAN,
          bboxAnn \in BOOLEAN :
        subs' = [subs EXCEPT ![s] =
            [IdleSub EXCEPT !.pc = "create", !.kind = "url", !.parser = parser,
                            !.reqDocAnn = docAnn, !.docAnn = docAnn,
                            !.bboxAnn = bboxAnn, !.url = TRUE]]
    /\ UNCHANGED embedVars
    /\ statusResp' = NoResponse
    /\ UNCHANGED pageH

\* processDocumentFromUrl: document_url is missing: 400
processDocumentFromUrl_reject(s) ==
    /\ KindOf(s) = "url"
    /\ subs[s].pc = "idle"
    /\ \E parser \in ParserChoices :
        subs' = [subs EXCEPT ![s] =
            [IdleSub EXCEPT !.pc = "rejected", !.kind = "url", !.resp = "400",
                            !.parser = parser]]
    /\ UNCHANGED embedVars
    /\ statusResp' = NoResponse
    /\ UNCHANGED pageH

\* the background task runs up to its first await: the adapter is called, or
\* (URL with the job-based parser) the undefined name document_url throws
StartBackground(sub) ==
    IF sub.kind = "url" /\ sub.parser = "llama"
    THEN [sub EXCEPT !.pc = "writeFailed", !.err = "reference"]
    ELSE IF sub.parser = "llama"
    THEN [sub EXCEPT !.pc = "upload", !.calls = 1]
    ELSE [sub EXCEPT !.pc = "mistral", !.try = 1, !.calls = 1,
                     !.annSent = sub.docAnn \/ sub.bboxAnn]

\* Document.create returned: the task is started, not awaited, and 202 is sent
submission_created(s) ==
    /\ subs[s].pc = "create"
    /\ db' = CreateDocument(DocOf(s))
    /\ subs' = [subs EXCEPT ![s] = StartBackground([@ EXCEPT !.resp = "202"])]
    /\ UNCHANGED <<vectors, runningJobs, runs, startH, stopH, faults, mode, targets, stopSeen>>
    /\ statusResp' = NoResponse
    /\ UNCHANGED pageH

\* Document.create failed: the file is deleted and 500 is sent
submission_createFailed(s) ==
    /\ subs[s].pc = "create"
    /\ faults < MaxFaults
    /\ faults' = faults + 1
    /\ subs' = [subs EXCEPT ![s] =
            [@ EXCEPT !.pc = "initFailed", !.resp = "500",
                      !.file = IF @ = "present" THEN "deleted" ELSE @]]
    /\ UNCHANGED <<db, vectors, runningJobs, runs, startH, stopH, mode, targets, stopSeen>>
    /\ statusResp' = NoResponse
    /\ UNCHANGED pageH

----------------------------------------------------------------------------
(* The job-based adapter (llamaIndexService) *)

\* the catch of the background task: the failed status write is issued
Fail(sub, message) == [sub EXCEPT !.pc = "writeFailed", !.err = message]

\* the upload returned a job id: monitorJob starts with attempts = 0
bg_uploaded(s) ==
    /\ subs[s].pc = "upload"
    /\ subs' = [subs EXCEPT ![s] = [@ EXCEPT !.pc = "monitor", !.job = "PENDING",
                                             !.attempts = 0]]
    /\ UNCHANGED embedVars
    /\ statusResp' = NoResponse
    /\ UNCHANGED pageH

\* the backend finishes the job, with success or with a failure
backend_jobFinishes(s) ==
    /\ subs[s].job = "PENDING"
    /\ \E st \in {"SUCCESS", "ERROR", "FAILED"} :
        subs' = [subs EXCEPT ![s].job = st]
    /\ UNCHANGED embedVars
    /\ statusResp' = NoResponse
    /\ UNCHANGED pageH

\* an awaited request to the job-based backend failed
\* what an error of the job-based adapter says: a plain backend error, one
\* about credits, one about the 700 page limit, or the timeout of monitorJob
LlamaErrors == {"backend", "credits", "700", "timeout"}

\* the catch of parseDocument: two messages are replaced, any other is kept
ParseDocumentError(message) ==
    IF message = "credits" THEN "creditsExhausted"
    ELSE IF message = "700" THEN "agenticLimit"
    ELSE message

bg_requestFailed(s) ==
    /\ subs[s].pc \in {"upload", "monitor", "result"}
    /\ \E message \in LlamaErrors \ {"timeout"} :
        subs' = [subs EXCEPT ![s] = Fail(@, ParseDocumentError(message))]
    /\ UNCHANGED embedVars
    /\ statusResp' = NoResponse
    /\ UNCHANGED pageH

SameAttempts(a) == a

NextAttempts(a) == a + 1

TerminalFailureErrorOnly == {"ERROR"}

\* the job statuses at which monitorJob throws the backend's failure
TerminalFailure == {"ERROR", "FAILED"}

\* one poll of monitorJob returned the job status
Polled(sub) ==
    IF sub.job = "SUCCESS" THEN [sub EXCEPT !.pc = "result"]
    ELSE IF sub.job \in TerminalFailure THEN Fail(sub, ParseDocumentError("backend"))
    ELSE IF NextAttempts(sub.attempts) < MaxAttempts
    THEN [sub EXCEPT !.attempts = NextAttempts(@)]
    ELSE Fail([sub EXCEPT !.attempts = NextAttempts(@)], ParseDocumentError("timeout"))

\* the number of the status request that was answered: attempts + 1, as logged
CountPoll(attempts) == attempts + 1

bg_polled(s) ==
    /\ subs[s].pc = "monitor"
    /\ subs' = [subs EXCEPT ![s] = Polled([@ EXCEPT !.polls = CountPoll(subs[s].attempts)])]
    /\ UNCHANGED embedVars
    /\ statusResp' = NoResponse
    /\ UNCHANGED pageH

\* the local file is removed once the adapter returned
DeleteFile(sub) == [sub EXCEPT !.file = IF @ = "present" THEN "deleted" ELSE @]

\* an element of the page array of the JSON result: a page with text, a page
\* whose text is blank, or an element whose access throws (null, text not a string)
JsonItems == {"text", "blank", "bad"}

\* the answers of the JSON result endpoint: the fetch fails, the data has no
\* page array, or it has a page array (under pages, or as the data itself)
\* (numbering: whether the elements carry page_number, counting up from 1 or
\* down to 1, or carry none)
JsonResults ==
    {[fetched |-> FALSE, shape |-> "other", items |-> <<>>, numbering |-> "none"],
     [fetched |-> TRUE, shape |-> "other", items |-> <<>>, numbering |-> "none"]}
    \cup {[fetched |-> TRUE, shape |-> sh, items |-> it, numbering |-> nu] :
            sh \in {"pages", "array"},
            it \in UNION {[1..n -> JsonItems] : n \in 0..MaxParsedPages},
            nu \in {"none", "ascending", "descending"}}

\* page.page_number of element k of the page array (0: the element has none)
ExplicitNumber(json, k) ==
    IF json.numbering = "ascending" THEN k
    ELSE IF json.numbering = "descending" THEN Len(json.items) + 1 - k
    ELSE 0

\* the forEach over the page array stops at the first element that throws
FirstBad(items) ==
    IF \E k \in 1..Len(items) : items[k] = "bad"
    THEN CHOOSE k \in 1..Len(items) :
            items[k] = "bad" /\ \A j \in 1..(k - 1) : items[j] # "bad"
    ELSE Len(items) + 1

\* the pages pushed to parsedPages: blank pages are skipped
Extracted(items) == Cardinality({k \in 1..(FirstBad(items) - 1) : items[k] = "text"})

\* how the structured result is: its fetch failed, it is absent, it is
\* malformed, or it is a well-formed page array
JsonClass(json) ==
    IF ~json.fetched THEN "failed"
    ELSE IF json.shape = "other" THEN "absent"
    ELSE IF FirstBad(json.items) <= Len(json.items) THEN "malformed"
    ELSE "structured"

\* the indexes of the elements pushed to parsedPages, in the order of the push
PushedIndexes(items) ==
    SelectSeq([k \in 1..(FirstBad(items) - 1) |-> k], LAMBDA k : items[k] = "text")

\* pageNumber of a pushed page: page.page_number || page.page || (index + 1)
\* under pages, index + 1 when the data itself is the array
PageNum(json, k) ==
    IF json.shape = "pages" /\ ExplicitNumber(json, k) # 0
    THEN ExplicitNumber(json, k)
    ELSE k

\* parsedPages.sort((a, b) => a.pageNumber - b.pageNumber): reached under
\* pages when no element threw
SortedByPageNumber(json, pushed) ==
    IF json.shape = "pages" /\ JsonClass(json) = "structured"
    THEN SortSeq(pushed, LAMBDA a, b : PageNum(json, a) < PageNum(json, b))
    ELSE pushed

\* processJobResult, the text and the details endpoints answering: the number
\* of pages returned, what the text of the pages is (the structured pages, the
\* flat text of the text endpoint, or the empty string), the pageNumber of
\* each returned page, and the page_number the backend gave for it (0: none)
processJobResult(json) ==
    LET n == Extracted(json.items)
        usedTextEndpoint == JsonClass(json) # "structured"
        returned == SortedByPageNumber(json, PushedIndexes(json.items))
    IN  IF n > 0
        THEN [pages |-> n, pageText |-> "structured",
              pageNumbers |-> [j \in 1..n |-> PageNum(json, returned[j])],
              explicit |-> [j \in 1..n |-> ExplicitNumber(json, returned[j])]]
        ELSE [pages |-> 1, pageText |-> IF usedTextEndpoint THEN "flat" ELSE "empty",
              pageNumbers |-> <<1>>, explicit |-> <<0>>]

\* text of the pages processJobResult returns: the cleaned text of each
\* structured page, or the one page made of parsedText
ReturnedTexts(result) ==
    IF result.pageText = "structured" THEN [k \in 1..result.pages |-> "text"]
    ELSE <<result.pageText>>

\* processJobResult returned the pages (at least one)
bg_resultFetched(s) ==
    /\ subs[s].pc = "result"
    /\ \E json \in JsonResults :
        subs' = [subs EXCEPT ![s] =
                    DeleteFile([@ EXCEPT !.pc = "writeCompleted",
                                         !.pages = processJobResult(json).pages,
                                         !.pageText = processJobResult(json).pageText,
                                         !.pageNumbers = processJobResult(json).pageNumbers,
                                         !.explicit = processJobResult(json).explicit,
                                         !.texts = ReturnedTexts(processJobResult(json)),
                                         !.jsonClass = JsonClass(json)])]
    /\ UNCHANGED embedVars
    /\ statusResp' = NoResponse
    /\ UNCHANGED pageH

----------------------------------------------------------------------------
(* The direct-call adapter (mistralService) and the retry *)

MistralFailedRetriesAgain(sub) ==
    IF sub.docAnn \/ sub.bboxAnn
    THEN [sub EXCEPT !.try = 2, !.calls = @ + 1, !.annSent = FALSE]
    ELSE Fail(sub, "backend")

\* the adapter failed: one retry without annotations if one was requested
MistralFailed(sub) ==
    IF sub.try = 1 /\ (sub.docAnn \/ sub.bboxAnn)
    THEN [sub EXCEPT !.try = 2, !.calls = @ + 1, !.annSent = FALSE]
    ELSE Fail(sub, "backend")

\* a page of the backend's response: markdown with visible text, markdown of
\* white space only, no markdown, or no markdown and an embedded image
OcrPageKinds == {"text", "space", "empty", "image"}

\* response.pages of the OCR call: an array of pages, something that is not
\* an array, or missing (undefined or null)
OcrResponses ==
    {[listed |-> li, pages |-> <<>>] : li \in {"missing", "nonarray"}}
    \cup {[listed |-> "array", pages |-> ps] :
            ps \in UNION {[1..n -> OcrPageKinds] : n \in 0..MaxOcrPages}}

\* page.markdown && page.markdown.trim().length > 0
HasMarkdown(page) == page = "text"

\* page.images && page.images.length > 0
HasImages(page) == page = "image"

filterBlankPages(response) ==
    IF response.listed # "array" THEN <<>>
    ELSE SelectSeq(response.pages, LAMBDA page : HasMarkdown(page) \/ HasImages(page))

\* page.markdown of a page the filter keeps: its text, or nothing (image only)
Markdown(page) == IF page = "text" THEN "text" ELSE "empty"

\* cleanMarkdownToText(page.markdown): the empty string for no markdown
CleanText(page) == IF page = "text" THEN "text" ELSE "empty"

\* processDocument after the OCR call: the filtered pages with their clean
\* text; the log line reads response.pages.length, which throws when pages is
\* missing
MistralThrows(response) == response.listed = "missing"

MistralPages(response) ==
    [k \in 1..Len(filterBlankPages(response)) |->
        [text |-> CleanText(filterBlankPages(response)[k]),
         markdown |-> Markdown(filterBlankPages(response)[k])]]

\* the adapter after the OCR call answered with response: it throws, or it
\* returns the filtered pages to the background task, which deletes the file
AdapterReturned(sub, response) ==
    IF MistralThrows(response)
    THEN MistralFailed(sub)
    ELSE DeleteFile([sub EXCEPT !.pc = "writeCompleted",
                                !.texts = [k \in 1..Len(MistralPages(response)) |->
                                                MistralPages(response)[k].text],
                                !.pages = Len(MistralPages(response))])

\* the OCR call of submission s answered with response
OcrAnswered(s, response) ==
    /\ subs[s].pc = "mistral"
    /\ subs' = [subs EXCEPT ![s] = AdapterReturned(@, response)]

bg_mistralReturned(s) ==
    /\ \E response \in OcrResponses : OcrAnswered(s, response)
    /\ UNCHANGED embedVars
    /\ statusResp' = NoResponse
    /\ UNCHANGED pageH

bg_mistralFailed(s) ==
    /\ subs[s].pc = "mistral"
    /\ subs' = [subs EXCEPT ![s] = MistralFailed(@)]
    /\ UNCHANGED embedVars
    /\ statusResp' = NoResponse
    /\ UNCHANGED pageH

----------------------------------------------------------------------------
(* The status writes of the background task *)

AfterCompletedWrittenThrows(sub) ==
    [sub EXCEPT !.pc = "writeFailed", !.err = "store", !.statusWrites = @ + 1]

\* after the completed write only a log line follows
AfterCompletedWritten(sub) ==
    [sub EXCEPT !.pc = "ended", !.statusWrites = @ + 1, !.texts = <<>>]

\* ocrResponse.pages: the page objects of the job-based adapter carry
\* pageNumber, those of the direct-call adapter are the filtered pages of the
\* backend's response (whose markdown is empty when their clean text is)
OcrPages(sub) ==
    IF sub.parser = "llama"
    THEN [k \in 1..sub.pages |->
            [pageNumber |-> sub.pageNumbers[k], text |-> sub.texts[k],
             markdown |-> sub.texts[k]]]
    ELSE [k \in 1..sub.pages |-> [text |-> sub.texts[k], markdown |-> sub.texts[k]]]

\* pageNumber: page.page_number || index + 1
StoredPageNumber(page, index) ==
    IF "page_number" \in DOMAIN page THEN page.page_number ELSE index + 1

\* ocrResponse.pages.map((page, index) => ({pageNumber: ..., ...}))
StoredPagesData(pages) == [k \in 1..Len(pages) |-> StoredPageNumber(pages[k], k - 1)]

\* const pageText = page.text || page.markdown || ''
StoredPageText(page) ==
    IF page.text # "empty" THEN page.text
    ELSE IF page.markdown # "empty" THEN page.markdown
    ELSE "empty"

StoredPageTexts(pages) == [k \in 1..Len(pages) |-> StoredPageText(pages[k])]

\* fullText: the adapter's text (job-based), or the pages' markdown joined
FullText(sub, pages) ==
    IF sub.parser = "llama"
    THEN IF sub.pageText = "empty" THEN "empty" ELSE "text"
    ELSE IF \E k \in 1..Len(pages) : pages[k].markdown = "text" THEN "text" ELSE "empty"

\* findByIdAndUpdate wrote parsingStatus completed and the pages
bg_completedWritten(s) ==
    LET d == DocOf(s) IN
    /\ subs[s].pc = "writeCompleted"
    /\ db' = [db EXCEPT ![d].parsingStatus = "completed",
                        ![d].pagesData = StoredPagesData(OcrPages(subs[s])),
                        ![d].pageTexts = StoredPageTexts(OcrPages(subs[s])),
                        ![d].pages = Len(OcrPages(subs[s])),
                        ![d].originalText = FullText(subs[s], OcrPages(subs[s]))]
    /\ subs' = [subs EXCEPT ![s] = AfterCompletedWritten(@)]
    /\ UNCHANGED <<vectors, runningJobs, runs, startH, stopH, faults, mode, targets, stopSeen>>
    /\ statusResp' = NoResponse
    /\ UNCHANGED pageH

\* the completed write was rejected by the store: the catch writes failed
bg_completedWriteFailed(s) ==
    /\ subs[s].pc = "writeCompleted"
    /\ faults < MaxFaults
    /\ faults' = faults + 1
    /\ subs' = [subs EXCEPT ![s] = Fail(@, "store")]
    /\ UNCHANGED <<db, vectors, runningJobs, runs, startH, stopH, mode, targets, stopSeen>>
    /\ statusResp' = NoResponse
    /\ UNCHANGED pageH

\* the paths that documentSchema declares under metadata
MetadataPaths ==
    {"model", "parser", "usage", "processedAt", "jobId", "pageCount",
     "processingTime", "bookName", "authorName", "category"}

\* an update of metadata.<path>: the schema is strict, so a value for a path
\* it does not declare is dropped from the update and the field stays unset
CastMetadataUpdate(path, old, value) == IF path \in MetadataPaths THEN value ELSE old

\* findByIdAndUpdate wrote parsingStatus failed (and metadata.error, as far as
\* the schema stores it); the file is deleted
bg_failedWritten(s) ==
    LET d == DocOf(s) IN
    /\ subs[s].pc = "writeFailed"
    /\ db' = [db EXCEPT ![d].parsingStatus = "failed",
                        ![d].error = CastMetadataUpdate("error", @, subs[s].err)]
    /\ subs' = [subs EXCEPT ![s] =
                    DeleteFile([@ EXCEPT !.pc = "ended", !.statusWrites = @ + 1])]
    /\ UNCHANGED <<vectors, runningJobs, runs, startH, stopH, faults, mode, targets, stopSeen>>
    /\ statusResp' = NoResponse
    /\ UNCHANGED pageH

\* the failed write was rejected by the store: the task ends with the rejection
bg_failedWriteFailed(s) ==
    /\ subs[s].pc = "writeFailed"
    /\ faults < MaxFaults
    /\ faults' = faults + 1
    /\ subs' = [subs EXCEPT ![s].pc = "crashed"]
    /\ UNCHANGED <<db, vectors, runningJobs, runs, startH, stopH, mode, targets, stopSeen>>
    /\ statusResp' = NoResponse
    /\ UNCHANGED pageH

----------------------------------------------------------------------------
(* updateDocumentPage and deleteDocumentPage (documentController) *)

\* parseInt(req.params.pageNumber): 0 stands for every value that is rejected
\* (not a number, or below 1)
RequestedPageNumbers == 0..MaxParsedPages

\* req.body.text of an update: a text, the empty string, or none
RequestedTexts == {"text", "empty", "none"}

\* document.pagesData.findIndex(page => page.pageNumber === pageNum), counted
\* from 1 (0: not found)
FindIndex(pagesData, pageNum) ==
    IF \E k \in 1..Len(pagesData) : pagesData[k] = pageNum
    THEN CHOOSE k \in 1..Len(pagesData) :
            pagesData[k] = pageNum /\ \A j \in 1..(k - 1) : pagesData[j] # pageNum
    ELSE 0

\* array.splice(pageIndex, 1)
Splice(seq, k) == [j \in 1..(Len(seq) - 1) |-> IF j < k THEN seq[j] ELSE seq[j + 1]]

RenumberSkipped(pagesData, k) == pagesData

\* for (let i = pageIndex; i < pagesData.length; i++) pagesData[i].pageNumber = i + 1
Renumber(pagesData, k) ==
    [j \in 1..Len(pagesData) |-> IF j >= k THEN j ELSE pagesData[j]]

\* the handler sent its response and returned
PageResponded(handler, resp) == [IdlePageHandler EXCEPT !.resp = resp]

\* the parameter checks: 400, or the handler awaits Document.findOne
PageRequest(op, d, pageNum, text) ==
    LET request == [IdlePageHandler EXCEPT !.op = op, !.doc = d, !.pageNum = pageNum,
                                           !.text = text]
    IN  IF pageNum < 1 \/ (op = "update" /\ text = "none")
        THEN PageResponded(request, "400")
        ELSE [request EXCEPT !.pc = "find"]

\* a handler that is free to take the next request
FreePageHandler(h) ==
    /\ pageH[h].pc = "idle"
    /\ \A g \in PageHandlerIds : g < h => pageH[g].pc # "idle"

updateDocumentPage_request(h, d, pageNum, text) ==
    /\ FreePageHandler(h)
    /\ pageH' = [pageH EXCEPT ![h] = PageRequest("update", d, pageNum, text)]
    /\ UNCHANGED <<embedVars, subs>>
    /\ statusResp' = NoResponse

deleteDocumentPage_request(h, d, pageNum) ==
    /\ FreePageHandler(h)
    /\ pageH' = [pageH EXCEPT ![h] = PageRequest("delete", d, pageNum, "none")]
    /\ UNCHANGED <<embedVars, subs>>
    /\ statusResp' = NoResponse

\* the document as findOne returned it
LoadedDocument(handler, doc) ==
    [handler EXCEPT !.pc = "save",
                    !.pageIndex = FindIndex(doc.pagesData, handler.pageNum),
                    !.pagesData = doc.pagesData, !.pageTexts = doc.pageTexts,
                    !.originalText = doc.originalText, !.version = doc.version]

\* no document, or no page of that number
PageNotFound(handler, doc) ==
    ~doc.exists \/ FindIndex(doc.pagesData, handler.pageNum) = 0

\* findOne returned: 404, or the text of the page is set in memory and save()
\* is issued
updateDocumentPage_found(h) ==
    LET d == pageH[h].doc
        loaded == LoadedDocument(pageH[h], db[d])
    IN  /\ pageH[h].pc = "find"
        /\ pageH[h].op = "update"
        /\ pageH' = [pageH EXCEPT ![h] =
                IF PageNotFound(@, db[d]) THEN PageResponded(@, "404")
                ELSE [loaded EXCEPT !.pageTexts[loaded.pageIndex] = pageH[h].text]]
        /\ UNCHANGED <<embedVars, subs>>
        /\ statusResp' = NoResponse

\* findOne returned: 404, or the page is spliced out in memory, the pages
\* after it are renumbered and save() is issued
deleteDocumentPage_found(h) ==
    LET d == pageH[h].doc
        loaded == LoadedDocument(pageH[h], db[d])
    IN  /\ pageH[h].pc = "find"
        /\ pageH[h].op = "delete"
        /\ pageH' = [pageH EXCEPT ![h] =
                IF PageNotFound(@, db[d]) THEN PageResponded(@, "404")
                ELSE [loaded EXCEPT
                        !.pagesData = Renumber(Splice(db[d].pagesData, loaded.pageIndex),
                                               loaded.pageIndex),
                        !.pageTexts = Splice(db[d].pageTexts, loaded.pageIndex)]]
        /\ UNCHANGED <<embedVars, subs>>
        /\ statusResp' = NoResponse

\* save() rejects before it writes when the validation fails, and when the
\* version key of the record is no longer the one that was loaded (an array
\* was changed by position, or replaced): the catch of the handler answers 500
SaveRejected(handler, doc) ==
    \/ RequiredMissing(handler)
    \/ doc.version # handler.version

\* save() of an update: $set of the fields of the element at pageIndex
updateDocumentPage_saved(h) ==
    LET d == pageH[h].doc IN
    /\ pageH[h].pc = "save"
    /\ pageH[h].op = "update"
    /\ IF SaveRejected(pageH[h], db[d])
       THEN /\ pageH' = [pageH EXCEPT ![h] = PageResponded(@, "500")]
            /\ UNCHANGED db
       ELSE /\ pageH' = [pageH EXCEPT ![h] = PageResponded(@, "200")]
            /\ db' = [db EXCEPT ![d].pageTexts[pageH[h].pageIndex] = pageH[h].text]
    /\ UNCHANGED <<vectors, runningJobs, runs, startH, stopH, faults, mode, targets,
                   stopSeen, subs>>
    /\ statusResp' = NoResponse

\* save() of a delete: $set of the whole array and of pages, $inc of the version
deleteDocumentPage_saved(h) ==
    LET d == pageH[h].doc IN
    /\ pageH[h].pc = "save"
    /\ pageH[h].op = "delete"
    /\ IF SaveRejected(pageH[h], db[d])
       THEN /\ pageH' = [pageH EXCEPT ![h] = PageResponded(@, "500")]
            /\ UNCHANGED db
       ELSE /\ pageH' = [pageH EXCEPT ![h] = PageResponded(@, "200")]
            /\ db' = [db EXCEPT ![d].pagesData = pageH[h].pagesData,
                                ![d].pageTexts = pageH[h].pageTexts,
                                ![d].pages = Len(pageH[h].pagesData),
                                ![d].version = @ + 1]
    /\ UNCHANGED <<vectors, runningJobs, runs, startH, stopH, faults, mode, targets,
                   stopSeen, subs>>
    /\ statusResp' = NoResponse

----------------------------------------------------------------------------

\* the steps a submission takes when the call it awaits returns
Resumes(s) ==
    \/ submission_created(s)
    \/ bg_uploaded(s)
    \/ bg_polled(s)
    \/ bg_resultFetched(s)
    \/ bg_mistralReturned(s)
    \/ bg_completedWritten(s)
    \/ bg_failedWritten(s)

\* a call to a parser backend answers with an error
BackendError(s) ==
    \/ bg_requestFailed(s)
    \/ bg_mistralFailed(s)

Submit(s) ==
    \/ processDocument_accept(s)
    \/ processDocument_reject(s)
    \/ processDocumentFromUrl_accept(s)
    \/ processDocumentFromUrl_reject(s)

StoreFault(s) ==
    \/ submission_createFailed(s)
    \/ bg_completedWriteFailed(s)
    \/ bg_failedWriteFailed(s)

\* the steps of the orchestrator when the record store accepts every write
OrchestratorStep ==
    \/ \E s \in SubIds : Submit(s)
    \/ \E s \in SubIds : Resumes(s)
    \/ \E s \in SubIds : BackendError(s)
    \/ \E s \in SubIds : backend_jobFinishes(s)

NextParseLive == OrchestratorStep

NextParse ==
    \/ NextParseLive
    \/ \E s \in SubIds : StoreFault(s)

\* the status requests while the file submission is parsed; the document of
\* the URL submission is the one that is never created
NextStatus ==
    \/ processDocument_accept("fileSub")
    \/ processDocument_reject("fileSub")
    \/ Resumes("fileSub")
    \/ BackendError("fileSub")
    \/ backend_jobFinishes("fileSub")
    \/ \E d \in DocIds, requester \in Requesters : getDocumentStatus(d, requester)

\* no document yet, no request in flight
InitParse ==
    /\ db = [d \in DocIds |-> NoDocument]
    /\ mode = "overlap"
    /\ targets = {}
    /\ vectors = <<>>
    /\ runningJobs = [d \in DocIds |-> NoJob]
    /\ runs = [r \in RunIds |-> IdleRun]
    /\ startH = [h \in StartIds |-> IdleHandler]
    /\ stopH = IdleHandler
    /\ faults = 0
    /\ stopSeen = [d \in DocIds |-> FALSE]
    /\ subs = [s \in SubIds |-> IdleSub]
    /\ statusResp = NoResponse
    /\ pageH = [h \in PageHandlerIds |-> IdlePageHandler]

SpecParse == InitParse /\ [][NextParse]_vars

\* every awaited call returns; whether the backend answers with an error, and
\* whether a job ever leaves PENDING, is up to the backend
SpecParseLive ==
    InitParse /\ [][NextParseLive]_vars /\ \A s \in SubIds : WF_vars(Resumes(s))

SpecStatus == InitParse /\ [][NextStatus]_vars

----------------------------------------------------------------------------

Init ==
    /\ InitEmbed
    /\ subs = [s \in SubIds |-> IdleSub]
    /\ statusResp = NoResponse
    /\ pageH = [h \in PageHandlerIds |-> IdlePageHandler]

Next == NextEmbed

Spec == Init /\ [][Next]_vars

\* two parsed documents of one page each, and a serial client for each of them
InitTwoDocuments ==
    /\ db = [d \in DocIds |-> ParsedDocument(1)]
    /\ mode = "serial"
    /\ targets = DocIds
    /\ vectors = <<>>
    /\ runningJobs = [d \in DocIds |-> NoJob]
    /\ runs = [r \in RunIds |-> IdleRun]
    /\ startH = [h \in StartIds |-> IdleHandler]
    /\ stopH = IdleHandler
    /\ faults = 0
    /\ stopSeen = [d \in DocIds |-> FALSE]
    /\ subs = [s \in SubIds |-> IdleSub]
    /\ statusResp = NoResponse
    /\ pageH = [h \in PageHandlerIds |-> IdlePageHandler]

SpecTwoDocuments == InitTwoDocuments /\ [][NextEmbed]_vars

\* the whole pipeline on one document: a file is submitted and parsed while a
\* serial client sends startEmbedding and stopEmbedding for its document
InitPipeline ==
    /\ db = [d \in DocIds |-> NoDocument]
    /\ mode = "serial"
    /\ targets = {DocOf("fileSub")}
    /\ vectors = <<>>
    /\ runningJobs = [d \in DocIds |-> NoJob]
    /\ runs = [r \in RunIds |-> IdleRun]
    /\ startH = [h \in StartIds |-> IdleHandler]
    /\ stopH = IdleHandler
    /\ faults = 0
    /\ stopSeen = [d \in DocIds |-> FALSE]
    /\ subs = [s \in SubIds |-> IdleSub]
    /\ statusResp = NoResponse
    /\ pageH = [h \in PageHandlerIds |-> IdlePageHandler]

NextPipeline ==
    \/ processDocument_accept("fileSub")
    \/ Resumes("fileSub")
    \/ BackendError("fileSub")
    \/ backend_jobFinishes("fileSub")
    \/ NextEmbed

SpecPipeline == InitPipeline /\ [][NextPipeline]_vars

\* the same, with status requests for the submitted document by its owner and
\* by another user
NextFrame ==
    \/ NextPipeline
    \/ \E userId \in Users :
            getDocumentStatus(DocOf("fileSub"), [userId |-> userId, role |-> "user"])

SpecFrame == InitPipeline /\ [][NextFrame]_vars

\* a step of run r when the call it awaits returns without an error
RunStep(r) ==
    \/ pde_loaded(r)
    \/ pde_saved(r)
    \/ pde_embedded(r)
    \/ pde_stored(r)
    \/ pde_progressSaved(r)
    \/ pde_completed(r)

\* the pipeline on one document when the embedding provider and the record
\* store answer every call without an error
NextPipelineLive ==
    \/ processDocument_accept("fileSub")
    \/ Resumes("fileSub")
    \/ backend_jobFinishes("fileSub")
    \/ \E h \in StartIds, d \in targets : startEmbedding_check(h, d)
    \/ \E h \in StartIds : startEmbedding_start(h)
    \/ \E h \in StartIds : startEmbedding_reject(h)
    \/ \E d \in targets : stopEmbedding_delete(d)
    \/ stopEmbedding_updated
    \/ \E r \in RunIds : RunStep(r)

\* every call a run awaits returns
SpecPipelineLive ==
    InitPipeline /\ [][NextPipelineLive]_vars /\ \A r \in RunIds : WF_vars(RunStep(r))

\* page edits on the document of the file submission, before, while and after
\* it is parsed
NextPages ==
    \/ processDocument_accept("fileSub")
    \/ Resumes("fileSub")
    \/ BackendError("fileSub")
    \/ backend_jobFinishes("fileSub")
    \/ \E h \in PageHandlerIds, pageNum \in RequestedPageNumbers, text \in RequestedTexts :
            updateDocumentPage_request(h, DocOf("fileSub"), pageNum, text)
    \/ \E h \in PageHandlerIds, pageNum \in RequestedPageNumbers :
            deleteDocumentPage_request(h, DocOf("fileSub"), pageNum)
    \/ \E h \in PageHandlerIds : updateDocumentPage_found(h)
    \/ \E h \in PageHandlerIds : deleteDocumentPage_found(h)
    \/ \E h \in PageHandlerIds : updateDocumentPage_saved(h)
    \/ \E h \in PageHandlerIds : deleteDocumentPage_saved(h)

SpecPages == InitParse /\ [][NextPages]_vars

----------------------------------------------------------------------------
(* Claims about the embedding pipeline *)

\* a run is started by this step for document d
RunStarted(r, d) ==
    /\ runs[r].pc \notin ActivePcs
    /\ runs'[r].pc = "load"
    /\ runs'[r].doc = d

\* C1: a startEmbedding(d) that arrives while a run for d started by an earlier
\* startEmbedding(d) is still active and was not stopped starts no second run,
\* whatever the interleaving of the two handlers
C1_SecondStartRejected ==
    [][\A d \in DocIds : \A r \in RunIds :
          RunStarted(r, d) => \A q \in ActiveRuns(d) : runs[q].stopping]_vars

\* C2: at most one embedding run is active per document in every reachable state
C2_OneActiveRunPerDocument ==
    \A d \in DocIds : Cardinality(ActiveRuns(d)) <= 1

\* C3: after stopEmbedding(d) has returned, a run of d that is inside its batch
\* loop issues no further embedding-provider call
C3_NoBatchAfterStop ==
    [][\A r \in RunIds :
          (runs[r].stopped /\ runs[r].calls >= 1 /\ runs'[r].pc \in ActivePcs)
              => runs'[r].calls = runs[r].calls]_vars

\* C4: after stopEmbedding(d) completed, embeddingStatus of d stays not_started
\* until the next accepted startEmbedding(d): the stopped run does not overwrite it
C4_StoppedStaysNotStarted ==
    [][\A d \in DocIds :
          (db[d].exists /\ stopSeen[d] /\ stopSeen'[d])
              => db'[d].embeddingStatus = "not_started"]_vars

\* the record a run in its store loop is inserting
InsertingRecord(r) == VectorRecord(runs[r].doc, CurrentPageNumber(runs[r]))

UniqueVectorRecords ==
    \A k1, k2 \in 1..Len(vectors) :
        (/\ vectors[k1].documentId = vectors[k2].documentId
         /\ vectors[k1].pageNumber = vectors[k2].pageNumber
         /\ vectors[k1].chunkIndex = vectors[k2].chunkIndex) => k1 = k2

\* a step of run r whose insert is a duplicate leaves the store as it is and
\* moves the run to its next page or to the checkpoint, never to failure (the
\* step is the run's own: not the exit of the process after another failure)
DuplicateAbsorbed ==
    \A r \in RunIds :
        (/\ runs[r].pc = "store"
         /\ UniqueIndexViolated(vectors, InsertingRecord(r))
         /\ runs'[r].pc # "killed"
         /\ runs'[r].pc # "store" \/ runs'[r].j # runs[r].j)
            => /\ vectors' = vectors
               /\ runs'[r].pc \in {"store", "saveProgress"}
               /\ runs'[r].doc = runs[r].doc

\* C5: the store holds at most one Vector Record per (documentId, pageNumber,
\* chunkIndex), also when runs are repeated or overlap, and a duplicate insert
\* is absorbed: the run goes on with the next page
C5_UniqueAndAbsorbed ==
    [](UniqueVectorRecords) /\ [][DuplicateAbsorbed]_vars

\* a run that absorbed a duplicate insert reached its checkpoint
C5_Witness ==
    \E r \in RunIds :
        /\ runs[r].pc = "saveProgress"
        /\ runs[r].dupSeen
        /\ RecordCount(vectors, runs[r].doc, runs[r].allPages[1]) = 1

\* the step in which run r ends with embeddingStatus = completed
Completes(r) == runs[r].pc = "saveFinal" /\ runs'[r].pc = "done"

\* after the step: one record per page of the run's document, progress {0,0}
CompletedState(r) ==
    LET d == runs[r].doc IN
    /\ db'[d].embeddingStatus = "completed"
    /\ \A k \in 1..Len(runs[r].allPages) :
            RecordCount(vectors', d, runs[r].allPages[k]) = 1
    /\ db'[d].currentPage = 0
    /\ db'[d].currentChunk = 0

C7_CheckpointMonotone ==
    [][\A d \in DocIds :
          (db[d].embeddingStatus = "processing" /\ db'[d].embeddingStatus = "processing")
              => db'[d].currentPage >= db[d].currentPage]_vars


----------------------------------------------------------------------------
(* Parsing lifecycle *)

TerminalStable ==
    \A d \in DocIds :
        db[d].parsingStatus \in Terminal => db'[d].parsingStatus = db[d].parsingStatus

\* no task writes a terminal parsingStatus twice
AtMostOneStatusWrite == \A s \in SubIds : subs[s].statusWrites <= 1

\* every task that is over wrote a terminal parsingStatus
EveryTaskWroteStatus ==
    \A s \in SubIds : subs[s].pc \in {"ended", "crashed"} => subs[s].statusWrites = 1

\* every task whose last status write the store accepted wrote a terminal status
AcceptedTaskWroteStatus ==
    \A s \in SubIds :
        subs[s].pc = "ended" =>
            subs[s].statusWrites = 1 /\ db[DocOf(s)].parsingStatus \in Terminal

\* C9 as stated: parsingStatus is written to completed or failed by exactly one
\* step of every background task and never changes once it is completed or failed
C9_ExactlyOneTerminalWrite ==
    [](AtMostOneStatusWrite /\ EveryTaskWroteStatus) /\ [][TerminalStable]_vars

\* C9 amended: at most one step of a task writes completed or failed, exactly
\* one when the store accepts the task's last status write, and a completed or
\* failed parsingStatus never changes
C9_AtMostOneTerminalWrite ==
    [](AtMostOneStatusWrite /\ AcceptedTaskWroteStatus) /\ [][TerminalStable]_vars

\* the completed write was rejected and the catch wrote failed, once
C9_Witness ==
    \E s \in SubIds :
        /\ subs[s].pc = "ended"
        /\ subs[s].err = "store"
        /\ subs[s].statusWrites = 1
        /\ db[DocOf(s)].parsingStatus = "failed"

\* a submission that called a parser backend, or was answered 202, has its record
RecordBeforeBackendCall ==
    \A s \in SubIds :
        (subs[s].calls > 0 \/ subs[s].resp = "202") => db[DocOf(s)].exists

\* the step that sends 202 leaves the record in processing and the task unfinished
ResponseDoesNotAwaitTask ==
    \A s \in SubIds :
        (subs[s].resp # "202" /\ subs'[s].resp = "202") =>
            /\ db'[DocOf(s)].parsingStatus = "processing"
            /\ subs'[s].pc \in TaskPcs

----------------------------------------------------------------------------
(* Validation *)

\* the required source of a submission is missing: no file, no document_url
SourceMissing(sub) == IF sub.kind = "file" THEN sub.file = "none" ELSE ~sub.url

\* C11: a submission with a parser choice other than the two backends, or
\* without its source, is answered 400, has no Document record and no
\* background task, at both entry points
C11_InvalidSubmissionRejected ==
    \A s \in SubIds :
        (subs[s].pc # "idle" /\ (subs[s].parser \notin SupportedParsers \/ SourceMissing(subs[s]))) =>
            /\ subs[s].pc = "rejected"
            /\ subs[s].resp = "400"
            /\ subs[s].calls = 0
            /\ ~db[DocOf(s)].exists

----------------------------------------------------------------------------
(* The annotation retry *)

\* the step of submission s in which an adapter call fails
ParseFails(s) ==
    /\ subs[s].pc \in BackendPcs
    /\ subs'[s] # subs[s]
    /\ subs'[s].pc \in {"mistral", "writeFailed"}
    /\ ~(subs[s].pc = "mistral" /\ subs'[s].pc = "mistral" /\ subs'[s].calls = subs[s].calls)

\* a failed call that carried an annotation is followed by one call without
\* annotations; any other failed call is followed by the failed status write
RetryOnceWithoutAnnotation ==
    \A s \in SubIds :
        ParseFails(s) =>
            IF subs[s].annSent
            THEN /\ subs'[s].pc = "mistral"
                 /\ subs'[s].calls = subs[s].calls + 1
                 /\ ~subs'[s].annSent
            ELSE /\ subs'[s].pc = "writeFailed"
                 /\ subs'[s].calls = subs[s].calls

\* once the failed status write is issued no adapter call follows
NoCallAfterFailure ==
    \A s \in SubIds :
        subs[s].pc \in {"writeFailed", "ended", "crashed"} => subs'[s].calls = subs[s].calls

\* at most two adapter calls, and a second call carries no annotation
AtMostTwoCalls ==
    \A s \in SubIds :
        /\ subs[s].calls <= 2
        /\ subs[s].calls = 2 => ~subs[s].annSent /\ (subs[s].docAnn \/ subs[s].bboxAnn)

\* C12: a failed parse whose call carried an annotation is retried exactly once
\* with every annotation disabled; a failed retry, or a failure without
\* annotation, leads to the failed status write with no further adapter call;
\* no submission makes more than two adapter calls
C12_RetryOnce ==
    []AtMostTwoCalls /\ [][RetryOnceWithoutAnnotation /\ NoCallAfterFailure]_vars

\* the retry failed as well: two calls, then failed
C12_Witness ==
    \E s \in SubIds :
        /\ subs[s].calls = 2
        /\ subs[s].try = 2
        /\ subs[s].pc = "ended"
        /\ db[DocOf(s)].parsingStatus = "failed"

----------------------------------------------------------------------------
(* The page-count safety check *)

\* a file for the direct-call backend, document annotation requested, more
\* pages detected than the annotation limit
OverAnnotationLimit(sub) ==
    /\ sub.kind = "file"
    /\ sub.parser = "mistral"
    /\ sub.reqDocAnn
    /\ sub.pageCount > ANNOTATION_PAGE_LIMIT

\* such a submission is dispatched without the document annotation
AnnotationDroppedBeforeDispatch ==
    \A s \in SubIds :
        (OverAnnotationLimit(subs[s]) /\ subs[s].pc # "idle") =>
            /\ ~subs[s].docAnn
            /\ (subs[s].calls >= 1 /\ subs[s].annSent) => subs[s].bboxAnn

\* C13: over the page limit the document annotation is removed before the
\* adapter is dispatched, and the document becomes completed unless the
\* backend answers a call of the submission with an error
C13_AnnotationDroppedThenCompleted ==
    /\ []AnnotationDroppedBeforeDispatch
    /\ \A s \in SubIds :
        (OverAnnotationLimit(subs[s]) /\ subs[s].pc = "mistral") ~>
            (db[DocOf(s)].parsingStatus = "completed" \/ subs[s].err = "backend")

\* nine pages, annotation requested, one call without it, completed
C13_Witness ==
    \E s \in SubIds :
        /\ OverAnnotationLimit(subs[s])
        /\ subs[s].pageCount = ANNOTATION_PAGE_LIMIT + 1
        /\ subs[s].calls = 1
        /\ ~subs[s].annSent
        /\ db[DocOf(s)].parsingStatus = "completed"

----------------------------------------------------------------------------
(* The temporary file *)

\* the request handler and the background task of the submission are over
SubmissionOver(sub) == sub.pc \in {"rejected", "initFailed", "ended", "crashed"}

\* C14: once the handler and the background task of a file submission are
\* over, on any exit path, the uploaded file no longer exists
C14_FileDeletedOnEveryExit ==
    \A s \in SubIds :
        (subs[s].kind = "file" /\ SubmissionOver(subs[s])) => subs[s].file # "present"

----------------------------------------------------------------------------
(* The timeout of the job-based backend *)

\* the job stayed pending for all MaxAttempts polls of monitorJob
TimedOut(sub) == sub.parser = "llama" /\ sub.attempts = MaxAttempts

\* a timed out submission carries the timeout error and its record has no pages
TimeoutLeavesNoResult ==
    \A s \in SubIds :
        TimedOut(subs[s]) =>
            /\ subs[s].err = "timeout"
            /\ db[DocOf(s)].pagesData = <<>>
            /\ db[DocOf(s)].parsingStatus \in {"processing", "failed"}
            /\ db[DocOf(s)].parsingStatus = "failed" => db[DocOf(s)].error = "timeout"

\* C15: when the job never reports SUCCESS, ERROR or FAILED within the attempt
\* bound the document ends failed, the failure recorded in it is the timeout
\* error, and the parse result of the record stays as it was at creation
C15_TimeoutFails ==
    /\ []TimeoutLeavesNoResult
    /\ \A s \in SubIds :
        TimedOut(subs[s]) ~>
            (db[DocOf(s)].parsingStatus = "failed" /\ db[DocOf(s)].error = "timeout")

----------------------------------------------------------------------------
(* The fallback format of the job-based backend *)

\* C16: when the structured result is absent or malformed, or its fetch
\* fails, the result that is returned has exactly one page whose text is the
\* flat text
C16_FallbackSinglePage ==
    \A s \in SubIds :
        subs[s].jsonClass \in {"failed", "absent", "malformed"} =>
            subs[s].pages = 1 /\ subs[s].pageText = "flat"

----------------------------------------------------------------------------
(* getDocumentStatus *)

\* the requester of the response is neither the owner of the document nor an admin
Unauthorized(resp) == OwnerOf(resp.doc) # resp.userId /\ resp.role # "admin"

\* C17: a status is returned only to the owner of the document or to an admin;
\* any other requester gets 403 when the document exists, and a response that
\* carries neither status, result nor error
C17_StatusOnlyForOwnerOrAdmin ==
    /\ statusResp.code = "200" => ~Unauthorized(statusResp)
    /\ (statusResp.code # "none" /\ Unauthorized(statusResp)) =>
        /\ statusResp.code = IF db[statusResp.doc].exists THEN "403" ELSE "404"
        /\ statusResp.status = "none"
        /\ statusResp.data = Null
        /\ statusResp.error = "null"

\* another user asked for a completed document of u1 and got 403
C17_Witness ==
    /\ statusResp.code = "403"
    /\ statusResp.userId # OwnerOf(statusResp.doc)
    /\ db[statusResp.doc].parsingStatus = "completed"

\* C18: a 200 response has one of three shapes: processing without result and
\* error, completed with a result and without error, failed with an error and
\* without result
C18_StatusShapes ==
    statusResp.code = "200" =>
        \/ /\ statusResp.status = "processing"
           /\ statusResp.data = Null
           /\ statusResp.error = "null"
        \/ /\ statusResp.status = "completed"
           /\ statusResp.data # Null
           /\ statusResp.error = "null"
        \/ /\ statusResp.status = "failed"
           /\ statusResp.data = Null
           /\ statusResp.error \notin {"null", "none"}

----------------------------------------------------------------------------
(* Batching *)

\* ceil(n / BATCH_SIZE)
BatchCount(n) == (n + BATCH_SIZE - 1) \div BATCH_SIZE

\* a run inside its k-th batch: the call is the k-th, it got the pages at
\* positions (k-1)*B+1 .. min(k*B, N), at most B of them
InBatch(run) ==
    LET n == Len(run.allPages)
        k == run.calls
    IN  /\ k >= 1
        /\ run.i = (k - 1) * BATCH_SIZE
        /\ run.i < n
        /\ run.i + BatchLength(run.i, n) = Min(k * BATCH_SIZE, n)
        /\ BatchLength(run.i, n) \in 1..BATCH_SIZE

\* every page before the batch of the run has its record, unless an insert failed
EarlierBatchesPersisted(run) ==
    run.persistErrors = 0 =>
        \A p \in 1..run.i : RecordCount(vectors, run.doc, run.allPages[p]) = 1

\* C19: a run over N pages makes ceil(N / B) provider calls, the k-th with the
\* pages at positions (k-1)*B+1 .. min(k*B, N), never more than B, and a call
\* is issued only when the records of the batches before it were persisted
C19_BatchCalls ==
    \A r \in RunIds :
        /\ runs[r].pc \in {"embed", "store", "saveProgress"} =>
            InBatch(runs[r]) /\ EarlierBatchesPersisted(runs[r])
        /\ runs[r].pc = "saveFinal" =>
            runs[r].calls = BatchCount(Len(runs[r].allPages))

\* 41 pages: the third call was made and the run is at its final save
C19_Witness ==
    \E r \in RunIds :
        /\ runs[r].pc = "saveFinal"
        /\ Len(runs[r].allPages) = 2 * BATCH_SIZE + 1
        /\ runs[r].calls = 3

----------------------------------------------------------------------------
(* Abort of an embedding run *)

\* the step in which run r ends with an exception
Aborts(r) == IsActive(r) /\ runs'[r].pc = "failed"

\* the run persisted its processing marker before the step
MarkerPersisted(run) == run.pc \in {"embed", "store", "saveProgress", "saveFinal"}

\* no other request overlapped the run: the clients are serial and no
\* stopEmbedding was sent while it ran
Undisturbed(run) == mode = "serial" /\ ~run.stopping

\* the aborting step leaves status and progress of the document as they are
AbortWritesNothing ==
    \A r \in RunIds :
        Aborts(r) =>
            LET d == runs[r].doc IN
            /\ db'[d].embeddingStatus = db[d].embeddingStatus
            /\ db'[d].currentPage = db[d].currentPage
            /\ db'[d].currentChunk = db[d].currentChunk
            /\ (MarkerPersisted(runs[r]) /\ Undisturbed(runs[r])) =>
                /\ db'[d].embeddingStatus = "processing"
                /\ runs[r].i > 0 =>
                    db'[d].currentPage = Min(runs[r].i, Len(runs[r].allPages))

\* C20: the step in which a run aborts writes nothing to the document, so the
\* run never sets completed and embeddingProgress keeps the last persisted
\* checkpoint; after the marker was persisted embeddingStatus is and stays
\* processing
C20_AbortKeepsProcessing == [][AbortWritesNothing]_vars

\* a run over 41 pages aborted in its second batch: processing, checkpoint 20
C20_Witness ==
    \E r \in RunIds :
        /\ runs[r].pc = "failed"
        /\ mode = "serial"
        /\ db[runs[r].doc].embeddingStatus = "processing"
        /\ db[runs[r].doc].currentPage = BATCH_SIZE
        /\ runningJobs[runs[r].doc] = NoJob

----------------------------------------------------------------------------
(* Start of an embedding run and the state of parsing *)

\* C21: embeddingStatus leaves not_started only through a startEmbedding made
\* when parsingStatus is completed: a startEmbedding on a document whose parsing
\* is still processing or has failed starts no run
C21_StartOnlyWhenParsed ==
    [][\A d \in DocIds : \A r \in RunIds :
          RunStarted(r, d) => db[d].parsingStatus = "completed"]_vars

\* startEmbedding handler h sends its response in this step
StartResponds(h) ==
    /\ startH'[h] # startH[h]
    /\ startH'[h].pc = "idle"
    /\ startH'[h].resp # "none"

\* the document the responding handler was asked for is completed
CompletedAtResponse(h) ==
    /\ db[startH'[h].doc].exists
    /\ db[startH'[h].doc].embeddingStatus = "completed"

RejectedUntouched ==
    \A h \in StartIds :
        (StartResponds(h) /\ CompletedAtResponse(h)) =>
            /\ startH'[h].resp \in {"400 completed", "400 in progress"}
            /\ UNCHANGED <<runs, runningJobs, db, vectors>>

\* C22: startEmbedding on a document whose embeddingStatus is completed is
\* rejected: no run is started, no provider call is made, and the registry, the
\* Document record and the Vector Records are unchanged
C22_CompletedRejectsStart == [][RejectedUntouched]_vars

\* a completed document with its Vector Record, and the 400 sent for it
C22_Witness ==
    \E h \in StartIds :
        /\ startH[h].resp = "400 completed"
        /\ db[startH[h].doc].embeddingStatus = "completed"
        /\ RecordCount(vectors, startH[h].doc, 1) = 1
        /\ ActiveRuns(startH[h].doc) = {}

----------------------------------------------------------------------------
(* Independence of the runs of different documents *)

\* the step in which run r aborts leaves every other document as it is: its
\* record, its registry entry, its runs in flight and its parsing task
OthersUntouched(r) ==
    \A e \in DocIds \ {runs[r].doc} :
        /\ db'[e] = db[e]
        /\ runningJobs'[e] = runningJobs[e]
        /\ \A q \in ActiveRuns(e) : runs'[q] = runs[q]
        /\ \A s \in SubIds : DocOf(s) = e => subs'[s] = subs[s]

\* C23: runs for different documents are independent: a failure in the
\* embedding run of one document changes nothing in another document's record
\* or registry entry and does not abort another document's run in flight
C23_FailureStaysLocal == [][\A r \in RunIds : Aborts(r) => OthersUntouched(r)]_vars

----------------------------------------------------------------------------
(* Resuming from the checkpoint *)

\* run r found the checkpoint k > 0 when it loaded the document, and the store
\* holds the Vector Records of the first k pages
ResumesAfterCheckpoint(run) ==
    /\ run.resumeFrom > 0
    /\ run.resumeFrom <= Len(run.allPages)
    /\ \A p \in 1..run.resumeFrom : RecordCount(vectors, run.doc, run.allPages[p]) = 1

\* C24: a run started on a document that carries a checkpoint currentPage = k > 0
\* and the Vector Records of its first k pages submits only pages after the
\* checkpoint to the embedding provider
C24_ResumeSkipsEmbeddedPages ==
    \A r \in RunIds :
        (runs[r].pc = "embed" /\ ResumesAfterCheckpoint(runs[r]))
            => runs[r].i >= runs[r].resumeFrom

----------------------------------------------------------------------------
(* The checkpoint after each batch *)

\* the step in which the progress save of run r returns: the provider call of
\* the next batch, or the final save, is issued by the same step
ProgressSaveReturns(r) ==
    /\ runs[r].pc = "saveProgress"
    /\ runs'[r].pc \in {"embed", "saveFinal"}

\* the cumulative number of pages after the batches submitted so far
CumulativePages(run) == Min(run.calls * BATCH_SIZE, Len(run.allPages))

\* C25: after the records of batch k were written and before the provider call
\* of batch k + 1 is issued, embeddingProgress is persisted as
\* {currentPage: min(k * B, N), currentChunk: 0}
C25_CheckpointAfterEachBatch ==
    [][\A r \in RunIds :
          ProgressSaveReturns(r) =>
              /\ db'[runs[r].doc].currentPage = CumulativePages(runs[r])
              /\ db'[runs[r].doc].currentChunk = 0]_vars

----------------------------------------------------------------------------
(* The processing marker *)

\* run r has issued a provider call and is still running
HasCalledProvider(r) == IsActive(r) /\ runs[r].calls >= 1

\* the step in which run r issues its first provider call
FirstProviderCall(r) == runs[r].calls = 0 /\ runs'[r].calls = 1

\* no run that called the provider leaves the status not_started behind it,
\* unless a stopEmbedding reset the status while the run was running
MarkerBeforeProvider ==
    \A r \in RunIds :
        (HasCalledProvider(r) /\ ~runs[r].statusReset)
            => db[runs[r].doc].embeddingStatus # "not_started"

\* with its first provider call a run that no other request overlapped leaves
\* the status processing, and it wrote no Vector Record before that call
MarkerAtFirstCall ==
    \A r \in RunIds :
        (FirstProviderCall(r) /\ Undisturbed(runs[r]))
            => /\ db'[runs[r].doc].embeddingStatus = "processing"
               /\ vectors' = vectors
               /\ runs[r].pc = "save"

\* C26: embeddingStatus = processing is persisted before the run issues its
\* first provider call and before it writes any Vector Record: no run has called
\* the provider while the persisted status is still not_started, absent an
\* intervening stopEmbedding
C26_MarkerBeforeFirstCall == [](MarkerBeforeProvider) /\ [][MarkerAtFirstCall]_vars

\* the first batch of a 21-page document is at the provider, the record says
\* processing and no Vector Record exists yet
C26_Witness ==
    \E r \in RunIds :
        /\ runs[r].pc = "embed"
        /\ runs[r].calls = 1
        /\ Len(runs[r].allPages) = BATCH_SIZE + 1
        /\ db[runs[r].doc].embeddingStatus = "processing"
        /\ vectors = <<>>

----------------------------------------------------------------------------
(* monitorJob *)

\* a status poll of submission s is answered in this step
PollAnswered(s) == subs'[s].polls = subs[s].polls + 1

\* what monitorJob does with the answer of a poll
PollOutcome(s) ==
    LET sub == subs[s]
        after == subs'[s]
    IN  /\ sub.job = "SUCCESS" => after.pc = "result"
        /\ sub.job \in {"ERROR", "FAILED"} =>
                after.pc = "writeFailed" /\ after.err = "backend"
        /\ sub.job = "PENDING" =>
                IF after.polls = MaxAttempts
                THEN after.pc = "writeFailed" /\ after.err = "timeout"
                ELSE after.pc = "monitor"
        /\ after.pc # "monitor" => after.polls <= MaxAttempts

\* the timeout failure arises only from the last of MaxAttempts polls, all of
\* which reported a status that is not terminal
TimeoutOnlyAfterAllPolls(s) ==
    (subs[s].err # "timeout" /\ subs'[s].err = "timeout") =>
        /\ PollAnswered(s)
        /\ subs'[s].polls = MaxAttempts
        /\ subs[s].job = "PENDING"
        /\ subs[s].attempts = MaxAttempts - 1

PollsBounded == \A s \in SubIds : subs[s].polls <= MaxAttempts

\* C27: monitorJob returns at the first poll that reports SUCCESS, fails with
\* the backend's failure at the first poll that reports ERROR or FAILED, fails
\* with the timeout exactly when maxAttempts polls in a row reported a status
\* that is not terminal, and never polls more than maxAttempts times
C27_MonitorBounded ==
    /\ [](PollsBounded)
    /\ [][\A s \in SubIds :
            /\ PollAnswered(s) => PollOutcome(s)
            /\ TimeoutOnlyAfterAllPolls(s)]_vars

\* a job that stayed PENDING through all polls: the timeout failure
C27_Witness ==
    \E s \in SubIds :
        /\ subs[s].err = "timeout"
        /\ subs[s].polls = MaxAttempts
        /\ subs[s].job = "PENDING"

----------------------------------------------------------------------------
(* The stored failure message *)

\* the record of a failed document stores the message of the failure the task
\* ended with; the record of any other document stores none
StoredMessage(s) ==
    LET doc == db[DocOf(s)] IN
    IF doc.parsingStatus = "failed"
    THEN doc.error # "none" /\ doc.error = subs[s].err
    ELSE doc.error = "none"

\* C28: whenever parsingStatus is failed the record stores the message of the
\* failure that caused it (the timeout's message differing from that of a
\* backend failure), and a document that is not failed stores no message
C28_FailedStoresMessage == \A s \in SubIds : StoredMessage(s)

----------------------------------------------------------------------------
(* URL sources and the job-based parser *)

\* a URL submission with the job-based parser whose background task was started
UrlJobSubmission(sub) == sub.url /\ sub.parser = "llama" /\ sub.resp = "202"

\* C29: for a URL source submitted with the job-based parser the background
\* task hands the URL to the adapter of the job-based backend (and a job that
\* reports SUCCESS leads to parsingStatus = completed): the task never fails
\* before it has called the adapter
C29_UrlDispatchedToJobBackend ==
    \A s \in SubIds :
        UrlJobSubmission(subs[s]) =>
            /\ subs[s].calls >= 1
            /\ subs[s].err # "reference"

----------------------------------------------------------------------------
(* Page numbers of the stored pages *)

\* the document of submission s was parsed by the job-based backend
ParsedByJobBackend(s) ==
    /\ subs[s].parser = "llama"
    /\ subs[s].pc = "ended"
    /\ db[DocOf(s)].parsingStatus = "completed"

Ascending(seq) == \A j, k \in 1..Len(seq) : j < k => seq[j] < seq[k]

\* stored page k carries the page number the backend gave for it, and its
\* position when the backend gave none
KeepsBackendNumbers(s) ==
    LET stored == db[DocOf(s)].pagesData IN
    /\ Len(stored) = Len(subs[s].explicit)
    /\ \A k \in 1..Len(stored) :
            stored[k] = IF subs[s].explicit[k] # 0 THEN subs[s].explicit[k] ELSE k

\* C30: the stored pagesData is sorted ascending by pageNumber, and the
\* pageNumber of each stored page is the explicit page number of the backend
\* when there is one, also when blank pages were dropped, and the 1-based
\* position when there is none
C30_StoredPageNumbers ==
    \A s \in SubIds :
        ParsedByJobBackend(s) =>
            /\ Ascending(db[DocOf(s)].pagesData)
            /\ KeepsBackendNumbers(s)

----------------------------------------------------------------------------
(* Page numbers under page edits *)

\* the page numbers of document d are 1..N in array order, and pages is N
NumberedFromOne(doc) ==
    /\ doc.pagesData = PagesData(Len(doc.pagesData))
    /\ doc.pages = Len(doc.pagesData)
    /\ Len(doc.pageTexts) = Len(doc.pagesData)

\* C31: in every state of a document whose parse completed, after any page
\* updates and page deletions, the pageNumbers of pagesData are pairwise
\* distinct, at least 1 and exactly 1..N in array order, and pages equals the
\* length N of pagesData
C31_PageNumbersOneToN ==
    \A d \in DocIds :
        (db[d].exists /\ db[d].parsingStatus = "completed") => NumberedFromOne(db[d])

\* the first of two pages was deleted (the page left was renumbered to 1),
\* and the text of the page left was updated by the other handler
C31_Witness ==
    \E d \in DocIds, h \in PageHandlerIds :
        /\ db[d].parsingStatus = "completed"
        /\ db[d].version = 1
        /\ db[d].pagesData = <<1>>
        /\ pageH[h].resp = "200"
        /\ pageH[h].pc = "idle"
        /\ \E g \in PageHandlerIds : g # h /\ pageH[g].resp = "500"

----------------------------------------------------------------------------
(* The blank-page filter of the direct-call adapter *)

\* the pages of the response that have visible text or an embedded image, in
\* their order; none when the page list is missing or not an array
PagesWithContent(response) ==
    IF response.listed # "array" THEN <<>>
    ELSE SelectSeq(response.pages, LAMBDA page : page \in {"text", "image"})

\* C32: the direct-call adapter returns exactly the pages of the backend that
\* have non-whitespace text or an embedded image, in their original order,
\* and returns the empty list (it does not fail) when the page list is missing
\* or is not an array
C32_BlankPagesFiltered ==
    [][\A s \in SubIds, response \in OcrResponses :
            OcrAnswered(s, response) =>
                /\ subs'[s].pc = "writeCompleted"
                /\ subs'[s].pages = Len(PagesWithContent(response))
                /\ subs'[s].texts =
                        [k \in 1..Len(PagesWithContent(response)) |->
                            IF PagesWithContent(response)[k] = "text" THEN "text"
                            ELSE "empty"]]_vars

----------------------------------------------------------------------------
(* Persist failures inside a batch *)

\* run r resumes from an Embeddings.create that stored nothing: the insert
\* was rejected by the unique index, or failed with another error
PersistFailed(r) ==
    /\ runs[r].pc = "store"
    /\ runs'[r].pc # "store" \/ runs'[r].j # runs[r].j
    /\ runs'[r].pc # "killed"
    /\ vectors' = vectors

\* after the failed insert of page j the run attempts the next page of the
\* batch, or, after the last page, assigns the checkpoint of the batch and
\* issues its save
BatchGoesOn(r) ==
    LET run == runs[r]
        len == BatchLength(run.i, Len(run.allPages))
    IN  IF run.j + 1 < len
        THEN /\ runs'[r].pc = "store"
             /\ runs'[r].i = run.i
             /\ runs'[r].j = run.j + 1
        ELSE /\ runs'[r].pc = "saveProgress"
             /\ runs'[r].currentPage = run.i + len

\* a persist failure happened in the run so far
HadPersistFailure(run) == run.persistErrors > 0 \/ run.dupSeen

\* the checkpoint save of a batch returns: the checkpoint is the persisted one
\* (for a run no other request overlapped), and the next batch is submitted
\* if there is one
RunGoesOn(r) ==
    LET run == runs[r]
        d == run.doc
    IN  /\ Undisturbed(run) => db'[d].currentPage = run.currentPage
        /\ IF run.i + BATCH_SIZE < Len(run.allPages)
           THEN /\ runs'[r].pc = "embed"
                /\ runs'[r].i = run.i + BATCH_SIZE
                /\ runs'[r].calls = run.calls + 1
           ELSE runs'[r].pc = "saveFinal"

\* C33: a failure to persist the Vector Record of a page, a duplicate-key
\* rejection or any other error, does not abort the run: the remaining pages
\* of the batch are attempted, the checkpoint of the batch is advanced and
\* saved, and the later batches are submitted
C33_PersistFailureDoesNotAbort ==
    [][\A r \in RunIds :
            /\ PersistFailed(r) => BatchGoesOn(r)
            /\ (ProgressSaveReturns(r) /\ HadPersistFailure(runs[r])) => RunGoesOn(r)]_vars

\* an insert of the first batch failed with an error, and the second batch
\* was submitted
C33_Witness ==
    \E r \in RunIds :
        /\ runs[r].persistErrors > 0
        /\ runs[r].pc = "embed"
        /\ runs[r].calls = 2
        /\ db[runs[r].doc].currentPage = BATCH_SIZE

----------------------------------------------------------------------------
(* Writers of embeddingProgress *)

\* a step of a run of processDocumentEmbeddings
PipelineStep ==
    \E r \in RunIds :
        \/ pde_failed(r)
        \/ pde_loaded(r)
        \/ pde_saved(r)
        \/ pde_embedded(r)
        \/ pde_stored(r)
        \/ pde_storeError(r)
        \/ pde_progressSaved(r)
        \/ pde_completed(r)

ProgressUnchanged ==
    \A d \in DocIds :
        db[d].exists =>
            /\ db'[d].currentPage = db[d].currentPage
            /\ db'[d].currentChunk = db[d].currentChunk

\* C34: embeddingProgress of a stored document is written only by the
\* embedding pipeline: every other step (a parsing submission, the completed
\* and failed writes of its background task, getDocumentStatus, stopEmbedding,
\* a rejected startEmbedding) leaves currentPage and currentChunk as they are
C34_ProgressWrittenOnlyByPipeline ==
    [][~PipelineStep => ProgressUnchanged]_vars

\* a stop has reset the status of a parsed document whose checkpoint is past
\* page 0, and a status request was answered after it
C34_Witness ==
    \E d \in DocIds :
        /\ db[d].parsingStatus = "completed"
        /\ db[d].embeddingStatus = "not_started"
        /\ db[d].currentPage > 0
        /\ statusResp.code = "200"

----------------------------------------------------------------------------
(* Termination of a run *)

\* C35: when the embedding provider and the record store answer every call
\* without an error, every run that startEmbedding started eventually ends with
\* the final save (embeddingStatus completed), and the id of its document is
\* eventually out of the registry
C35_AcceptedRunCompletes ==
    \A r \in RunIds :
        (runs[r].pc = "load") ~>
            (runs[r].pc = "done" /\ runningJobs[runs[r].doc] # r)

----------------------------------------------------------------------------
(* The registry of running jobs *)

\* the run registered under d is executing on d
RegisteredRunExecutes(d) ==
    runningJobs[d] # NoJob =>
        /\ IsActive(runningJobs[d])
        /\ runs[runningJobs[d]].doc = d

\* C36: the registry never holds a stale entry: whenever the id of a document
\* is in the registry, the run registered under it is still executing, since
\* every run deletes the id when it ends, with success or with a failure
C36_NoStaleEntry == \A d \in DocIds : RegisteredRunExecutes(d)

\* a run failed or hit a persist error, and a run that resumes from a
\* checkpoint is registered
C36_Witness ==
    \E d \in DocIds :
        /\ runningJobs[d] # NoJob
        /\ faults > 0
        /\ runs[runningJobs[d]].resumeFrom > 0

\* run r, which a stopEmbedding took out of the registry, ends in this step
\* while run q, registered for the same document after the stop, goes on
OlderRunEnds(r, q) ==
    /\ r # q
    /\ IsActive(r)
    /\ runs[r].stopping
    /\ runs'[r].pc \notin ActivePcs
    /\ runningJobs[runs[r].doc] = q
    /\ runs'[q].pc \in ActivePcs

\* C37: a run that ends removes only its own registration: when an older run
\* of d ends while a newer run of d, accepted after a stopEmbedding, is
\* executing, d stays in the registry
C37_FinishingRunKeepsNewerEntry ==
    [][\A r \in RunIds, q \in RunIds :
            OlderRunEnds(r, q) => runningJobs'[runs[r].doc] = q]_vars

----------------------------------------------------------------------------
(* The text of the stored pages *)

\* C38: every page record that a completed parse stored has a non-empty
\* text, whichever backend parsed the document
C38_StoredPagesHaveText ==
    \A d \in DocIds :
        db[d].parsingStatus = "completed" =>
            \A k \in 1..Len(db[d].pageTexts) : db[d].pageTexts[k] # "empty"

====
